---- MODULE Spec2Model ----
(***************************************************************************)
(* Model of the plugin loader of ui_script_loader.py: the persisted        *)
(* metadata cache, the per-unit load cycle of get_canvas_plugins (cache-   *)
(* hit branch and cache-miss branch through initialize_plugin), the UI     *)
(* resolver resolve_plugin_ui, and the one-shot runner load_scripts; the  *)
(* file scan find_plugin_files; two callers of get_canvas_plugins on one   *)
(* context; and the tasks create_combined_ui (gradio_ui.py) and            *)
(* async_canvas_ui (canvas_ui.py) schedule on the event loop.              *)
(***************************************************************************)
EXTENDS Integers, Sequences, FiniteSets, TLC

(* ------------------------------ bounds -------------------------------- *)

\* number of candidate plugin files below CANVAS_DIR
NumUnits == 2
\* number of load cycles started in one behaviour
MaxCycles == 2
\* number of rewrites of plugin files in one behaviour
MaxMods == 1
\* number of times the resolver is applied in a row to one value
MaxResolves == 2
\* longest chain of invocables / coroutines wrapped around a UI value
MaxChain == 3
\* deepest directory below the root that is scanned
MaxDepth == 2
\* number of files in the scanned tree
MaxFiles == 2
\* number of tasks scheduled on the event loop in one behaviour
MaxTasks == 6

Units == 1..NumUnits

\* os.path.basename(path) of each candidate, by scan position
PathName == <<"a.py", "b.py", "c.py", "d.py", "e.py">>

(* --------------------------- UI candidates ---------------------------- *)

\* A UI candidate is a sequence of wrappers around a base value.
\*   "fn"   a synchronous callable, "afn" a coroutine function,
\*   "coro" a coroutine object;
\*   "V1", "V2" gr.Blocks / gr.Tabs instances, "comp" any other
\*   non-callable value, "none" Python's None, "boom" stands for the
\*   wrapper around it raising when invoked or awaited.
Wrappers == {"fn", "afn", "coro"}
Containers == {"V1", "V2"}
Bases == Containers \cup {"comp", "none", "boom"}

RECURSIVE ChainsOfLen(_)
ChainsOfLen(n) ==
    IF n = 0 THEN {<< >>}
    ELSE {<<w>> \o c : w \in Wrappers, c \in ChainsOfLen(n - 1)}

UIValues ==
    {c \o <<b>> : c \in UNION {ChainsOfLen(n) : n \in 0..MaxChain}, b \in Bases}
        \ {<<"boom">>}

\* asyncio.iscoroutine(v)
IsCoroutine(v) == v[1] = "coro"
\* isinstance(v, (gr.Blocks, gr.Tabs))
IsContainer(v) == Len(v) = 1 /\ v[1] \in Containers
\* callable(v): functions, coroutine functions, and gr.Blocks itself
\* (gr.Blocks defines __call__)
IsCallable(v) == v[1] \in {"fn", "afn"} \/ IsContainer(v)

\* the outcome of invoking or awaiting the outermost wrapper of v
Unwrap(v) ==
    IF Tail(v) = <<"boom">>
    THEN [ok |-> FALSE, val |-> v, steps |-> 1]
    ELSE [ok |-> TRUE, val |-> Tail(v), steps |-> 1]

\* mutant: the callable test placed before the container test, so that a
\* gr.Blocks instance (which is callable) is invoked
ResolvePluginUiCallFirst(v) ==
    IF IsCoroutine(v) THEN Unwrap(v)
    ELSE IF IsCallable(v)
         THEN IF IsContainer(v)
              THEN [ok |-> TRUE, val |-> <<"comp">>, steps |-> 1]
              ELSE Unwrap(v)
         ELSE [ok |-> TRUE, val |-> v, steps |-> 0]

\* resolve_plugin_ui: ok = FALSE when it raises; steps counts the
\* invocations and awaits it performed
ResolvePluginUi(v) ==
    IF IsCoroutine(v) THEN Unwrap(v)
    ELSE IF IsContainer(v) THEN [ok |-> TRUE, val |-> v, steps |-> 0]
    ELSE IF IsCallable(v) THEN Unwrap(v)
    ELSE [ok |-> TRUE, val |-> v, steps |-> 0]

(* --------------------------- files and cache -------------------------- *)

\* What a plugin file on disk holds.  title is the value of its
\* "# title:" line ("" when it has none); kind says which capabilities the
\* module defines: "noreg" no register_plugin, "reg" register_plugin only,
\* "hooks" register_plugin and register_hooks.  The description line and
\* __version__ are those written with the file at modification time mtime.
FileTitles == {"", "T"}
FileKinds == {"noreg", "reg", "hooks"}
DescText == <<"d1", "d2", "d3", "d4">>
VersionText == <<"v1", "v2", "v3", "v4">>

\* extract_metadata(lines, key) on the text of file f
ExtractMetadata(f, key) ==
    IF key = "title" THEN f.title ELSE DescText[f.mtime]

\* getattr(mod, "__version__", None) of the module imported from f
ModuleVersion(f) == VersionText[f.mtime]

\* mutant: the presence of register_plugin is not checked
HasRegisterPluginUnchecked(f) == TRUE

\* hasattr(mod, "register_plugin"), hasattr(mod, "register_hooks")
HasRegisterPlugin(f) == f.kind \in {"reg", "hooks"}
HasRegisterHooks(f) == f.kind = "hooks"

\* A row of the cache mapping.  shape "ok" is a row save_cache wrote;
\* "notitle" a mapping without the title key; "scalar" a row that is
\* not a mapping; "absent" no row for the path.
NoRow == [shape |-> "absent", title |-> "", description |-> "", mtime |-> 0, version |-> ""]
BadRow(shape, m) == [shape |-> shape, title |-> "", description |-> "", mtime |-> m, version |-> ""]

EmptyCache == [kind |-> "map", rows |-> [u \in Units |-> NoRow]]
\* parseable JSON that is not a mapping (a list)
NonMapping == [kind |-> "nonmap", rows |-> [u \in Units |-> NoRow]]

MissingFile == [kind |-> "missing", val |-> EmptyCache]
GarbageFile == [kind |-> "garbage", val |-> EmptyCache]
JsonFile(c) == [kind |-> "json", val |-> c]

\* the cache files a first load cycle may find: none, unparseable text, a
\* JSON list, or a mapping some of whose rows have the wrong shape
InitCacheFiles ==
    {MissingFile, GarbageFile, JsonFile(NonMapping)} \cup
    {JsonFile([kind |-> "map", rows |-> r]) :
        r \in [Units -> {NoRow, BadRow("notitle", 1), BadRow("scalar", 0)}]}

\* load_cache(): the parsed content, {} when the file is missing or
\* json.load raises
LoadCache(file) ==
    IF file.kind = "json" THEN file.val ELSE EmptyCache

\* save_cache(cache): json.dump into the file opened for writing; when it
\* fails the exception is logged and the file is left as it was (open
\* failed) or truncated (dump failed)
SaveCacheOutcomes(file, cache) ==
    {JsonFile(cache), file, GarbageFile}

(* ------------------------------ registry ------------------------------ *)

\* A registry is a Python dict title -> descriptor, kept as the sequence
\* of its values in insertion order.
RegIndex(reg, title) ==
    IF \E k \in 1..Len(reg) : reg[k].title = title
    THEN CHOOSE k \in 1..Len(reg) : reg[k].title = title
    ELSE 0

\* mutant: an existing title is kept (first write wins)
DictSetFirstWins(reg, d) ==
    IF RegIndex(reg, d.title) = 0 THEN Append(reg, d) ELSE reg

\* plugins[title] = d: a new key is appended, an existing key keeps its
\* position and takes the new value
DictSet(reg, d) ==
    IF RegIndex(reg, d.title) = 0
    THEN Append(reg, d)
    ELSE [reg EXCEPT ![RegIndex(reg, d.title)] = d]

(* --------------------------- plugin objects --------------------------- *)

\* What register_plugin(context) returns.  kind "nonmap" is a value that
\* is not a mapping (None), "empty" an empty mapping, "noui" a non-empty
\* mapping without the key 'ui', "ui" a mapping with it.  run says whether
\* the object has an attribute run (hasattr(plugin_obj, "run")).
NoneUi == <<"none">>
NoObj == [kind |-> "nonmap", ui |-> NoneUi, run |-> FALSE]

\* the values register_plugin returns in the load cycles explored
PluginObjects ==
    { NoObj,
      [kind |-> "empty", ui |-> NoneUi, run |-> TRUE],
      [kind |-> "noui", ui |-> NoneUi, run |-> FALSE],
      [kind |-> "ui", ui |-> <<"V1">>, run |-> TRUE],
      [kind |-> "ui", ui |-> <<"fn", "V2">>, run |-> FALSE],
      [kind |-> "ui", ui |-> <<"fn", "boom">>, run |-> FALSE] }

\* isinstance(plugin_obj, dict)
IsMapping(obj) == obj.kind # "nonmap"
\* "ui" in plugin_obj
HasUiKey(obj) == obj.kind = "ui"
\* bool(plugin_obj): None and the empty mapping are falsy
Truthy(obj) == obj.kind \in {"noui", "ui"}
\* plugin_obj.get("ui")
GetUi(obj) == IF HasUiKey(obj) THEN obj.ui ELSE NoneUi

\* isinstance(plugin_obj, dict) and "ui" in plugin_obj
ValidPluginObj(obj) == IsMapping(obj) /\ HasUiKey(obj)

(* ---------------------------- the file scan --------------------------- *)

\* File and directory names are sequences of characters.
\* str.startswith, str.endswith
StartsWith(s, p) == Len(s) >= Len(p) /\ SubSeq(s, 1, Len(p)) = p
EndsWith(s, p) == Len(s) >= Len(p) /\ SubSeq(s, Len(s) - Len(p) + 1, Len(s)) = p

EXCLUDED_FILES ==
    { <<"_", "_", "i", "n", "i", "t", "_", "_", ".", "p", "y">>,
      <<"c", "a", "n", "v", "a", "s", "_", "u", "i", ".", "p", "y">>,
      <<"u", "i", "_", "c", "o", "r", "e", "_", "l", "o", "g", "i", "c", ".", "p", "y">>,
      <<"u", "i", "_", "s", "c", "r", "i", "p", "t", "_", "l", "o", "a", "d", "e", "r", ".", "p", "y">>,
      <<"c", "o", "n", "t", "e", "x", "t", "_", "m", "a", "n", "a", "g", "e", "r", ".", "p", "y">>,
      <<"t", "r", "e", "e", "_", "u", "t", "i", "l", "s", ".", "p", "y">> }

\* is_plugin_file(filename)
IsPluginFile(filename) ==
    /\ EndsWith(filename, <<".", "p", "y">>)
    /\ filename \notin EXCLUDED_FILES
    /\ ~StartsWith(filename, <<"_", "_">>)

\* the file names and directory names of the trees explored
FileNames ==
    { <<"a", ".", "p", "y">>,
      <<"_", "a", ".", "p", "y">>,
      <<"_", "_", "x", ".", "p", "y">>,
      <<"_", "_", "i", "n", "i", "t", "_", "_", ".", "p", "y">>,
      <<"t", "r", "e", "e", "_", "u", "t", "i", "l", "s", ".", "p", "y">>,
      <<"a", ".", "p", "y", "c">>,
      <<".", "h", ".", "p", "y">> }
DirNames == { <<"p", "k", "g">>, <<".", "g", "i", "t">> }

\* a directory is the sequence of directory names from the root to it;
\* the root is << >>
Dirs == UNION {[1..n -> DirNames] : n \in 0..MaxDepth}

\* a file is a name in a directory
AllFiles == [dir : Dirs, name : FileNames]

\* the trees explored: at most MaxFiles files; the directories of a tree
\* are the ancestors of its files
RECURSIVE TreesOfSize(_)
TreesOfSize(k) ==
    IF k = 0 THEN {{}}
    ELSE LET smaller == TreesOfSize(k - 1)
         IN  smaller \cup {t \cup {f} : t \in smaller, f \in AllFiles}
Trees == TreesOfSize(MaxFiles)

\* the root as os.walk finds it: a readable directory, no such
\* directory, or a directory that may not be listed
RootStates == {"ok", "missing", "unreadable"}

\* the orders in which scandir may list the members of S
Orders(S) ==
    {o \in [1..Cardinality(S) -> S] :
        \A i, j \in 1..Cardinality(S) : i # j => o[i] # o[j]}

\* filenames of directory d in tree t
FilesIn(t, d) == {f \in t : f.dir = d}

\* the directories directly below d in tree t
SubDirs(t, d) ==
    {SubSeq(f.dir, 1, Len(d) + 1) :
        f \in {g \in t : Len(g.dir) > Len(d) /\ SubSeq(g.dir, 1, Len(d)) = d}}

\* mutant: hidden directories are walked as well
PruneNothing(dirs) == dirs

\* line 68: dirnames[:] = [d for d in dirnames if not d.startswith(".")]
PruneHidden(dirs) == {d \in dirs : ~StartsWith(d[Len(d)], <<".">>)}

\* the files of fs (in listing order) that is_plugin_file accepts
RECURSIVE Accepted(_)
Accepted(fs) ==
    IF fs = << >> THEN << >>
    ELSE (IF IsPluginFile(Head(fs).name) THEN <<Head(fs)>> ELSE << >>)
         \o Accepted(Tail(fs))

(* ------------------------------- state -------------------------------- *)

VARIABLES
    files,          \* disk: unit -> [mtime, title, kind, present]
    cacheFile,      \* disk: the file CACHE_FILE
    ctxPlugins,     \* context.plugins
    pc,             \* where the running entry point stands
    caller,         \* who awaits the cycle: "combined" or "plugins_ui"
    useCache,       \* the use_cache argument of the running cycle
    pluginFiles,    \* plugin_files
    idx,            \* position of the loop over plugin_files
    cache,          \* cache (in memory)
    plugins,        \* plugins (the registry being built)
    cur,            \* locals of the unit being processed, and what was
                    \* done to it
    cycles,         \* load cycles started so far
    raisedAt,       \* the step whose exception left get_canvas_plugins
    obs,            \* per unit: its state in this cycle
    start,          \* the cache file and context.plugins at cycle start
    scripts,        \* scripts_executed
    sidx,           \* position of the loop of load_scripts
    runs,           \* registry positions whose run() was invoked
    rv,             \* resolver: the value given
    rres,           \* resolver: results of the successive resolutions
    root,           \* scan: the state of root_dir
    tree,           \* scan: the files below root_dir
    recursive,      \* scan: the recursive argument
    walk,           \* scan: the directories os.walk has still to yield
    found,          \* scan: files (the list being built)
    scanPc,         \* scan: where find_plugin_files stands
    inv,            \* overlap: the locals of each running get_canvas_plugins,
                    \* and whether it started while the other was suspended
    asyncUnit,      \* overlap: the units whose register_plugin suspends
    uiArgs,         \* ui: the arguments of the first create_combined_ui
    uiBuilds,       \* ui: the runs of create_combined_ui so far
    uiTasks,        \* ui: the tasks given to asyncio.create_task so far
    uiLoop          \* ui: the state of the event loop

vars == <<files, cacheFile, ctxPlugins, pc, caller, useCache, pluginFiles, idx,
          cache, plugins, cur, cycles, raisedAt, obs, start, scripts, sidx,
          runs, rv, rres, root, tree, recursive, walk, found, scanPc,
          inv, asyncUnit, uiArgs, uiBuilds, uiTasks, uiLoop>>

diskVars == <<files, cacheFile>>
cycleVars == <<caller, useCache, pluginFiles, cache, start>>
scriptVars == <<scripts, sidx, runs>>
resolverVars == <<rv, rres>>
scanVars == <<root, tree, recursive, walk, found, scanPc>>
\* the state of the loader
loaderVars == <<files, cacheFile, ctxPlugins, pc, caller, useCache, pluginFiles,
                idx, cache, plugins, cur, cycles, raisedAt, obs, start, scripts,
                sidx, runs>>
\* what the load cycle leaves alone
overlapVars == <<inv, asyncUnit>>
uiVars == <<uiArgs, uiBuilds, uiTasks, uiLoop>>
sideVars == <<scanVars, overlapVars, uiVars>>

NoDesc == [title |-> "", description |-> "", version |-> "", mtime |-> 0,
           path |-> 0, ui |-> NoneUi, plugin_obj |-> NoObj]

NoObs == [status |-> "discovered", rejects |-> 0, desc |-> NoDesc]

NoCur == [unit |-> 0, mtime |-> 0, entry |-> NoRow, title |-> "", obj |-> NoObj,
          branch |-> "", stages |-> << >>, hookOut |-> "", derived |-> 0,
          before |-> [plugins |-> << >>, cache |-> EmptyCache,
                      obs |-> [u \in Units |-> NoObs]]]

NoStart == [cacheFile |-> MissingFile, ctxPlugins |-> << >>]

\* the unit the loop is at
Path == pluginFiles[idx]

(* ------------------------------- Init --------------------------------- *)

InitLoader ==
    /\ files \in [Units -> [mtime : {1}, title : FileTitles, kind : FileKinds,
                            present : {TRUE}]]
    /\ cacheFile \in InitCacheFiles
    /\ ctxPlugins = << >>
    /\ pc = "idle"
    /\ caller = ""
    /\ useCache = TRUE
    /\ pluginFiles = << >>
    /\ idx = 1
    /\ cache = EmptyCache
    /\ plugins = << >>
    /\ cur = NoCur
    /\ cycles = 0
    /\ raisedAt = ""
    /\ obs = [u \in Units |-> NoObs]
    /\ start = NoStart
    /\ scripts = << >>
    /\ sidx = 1
    /\ runs = << >>

InitResolver ==
    /\ rv = NoneUi
    /\ rres = << >>

\* find_plugin_files is not running
ScanOff ==
    /\ root = "ok"
    /\ tree = {}
    /\ recursive = TRUE
    /\ walk = << >>
    /\ found = << >>
    /\ scanPc = "off"

\* the two callers of the overlap are absent
Invocations == {1, 2}
NoInv == [pc |-> "idle", pluginFiles |-> << >>, idx |-> 1, plugins |-> << >>,
          cache |-> EmptyCache, second |-> FALSE]
OverlapOff ==
    /\ inv = [p \in Invocations |-> NoInv]
    /\ asyncUnit = [u \in Units |-> FALSE]

\* no UI is being built
NoArgs == [pm |-> FALSE, chat_handler |-> FALSE, context |-> FALSE]
UiOff ==
    /\ uiArgs = NoArgs
    /\ uiBuilds = << >>
    /\ uiTasks = << >>
    /\ uiLoop = "off"

Init == InitLoader /\ InitResolver /\ ScanOff /\ OverlapOff /\ UiOff

(* ------------------------- get_canvas_plugins ------------------------- *)

\* mutant: files no longer on disk are still candidates
FindPluginFilesAll == [k \in 1..NumUnits |-> k]

\* find_plugin_files(CANVAS_DIR): the plugin files on disk, in walk order
FindPluginFiles ==
    SelectSeq([k \in 1..NumUnits |-> k], LAMBDA u : files[u].present)

\* an exception leaves get_canvas_plugins at step `where`
Escape(where) ==
    /\ pc' = "raised"
    /\ raisedAt' = where

\* `continue`: on to the next candidate
Continue ==
    /\ pc' = "next"
    /\ idx' = idx + 1

\* the unit is skipped with one logged rejection
Rejected(u) == [obs EXCEPT ![u].status = "rejected", ![u].rejects = @ + 1]

\* the unit is registered with descriptor d
Ready(u, d) == [obs EXCEPT ![u].status = "ready", ![u].desc = d]

\* stage s of the current unit is executed
Stage(c, s) == [c EXCEPT !.stages = Append(@, s)]

\* lines 168-174: a caller enters get_canvas_plugins
StartCycle ==
    /\ pc = "idle"
    /\ cycles < MaxCycles
    /\ cycles' = cycles + 1
    /\ useCache' \in BOOLEAN
    /\ plugins' = << >>
    /\ pluginFiles' = FindPluginFiles
    /\ idx' = 1
    /\ start' = [cacheFile |-> cacheFile, ctxPlugins |-> ctxPlugins]
    /\ pc' = "loadcache"
    /\ UNCHANGED <<diskVars, ctxPlugins, caller, cache, cur, raisedAt, obs,
                   scriptVars, resolverVars, sideVars>>

\* mutant: the cycle starts from an empty cache mapping
LoadCacheStepEmpty ==
    /\ pc = "loadcache"
    /\ cache' = EmptyCache
    /\ pc' = "next"
    /\ UNCHANGED <<diskVars, ctxPlugins, caller, useCache, pluginFiles, idx,
                   plugins, cur, cycles, raisedAt, obs, start, scriptVars,
                   resolverVars, sideVars>>

\* line 176: cache = load_cache() if use_cache else {}
LoadCacheStep ==
    /\ pc = "loadcache"
    /\ cache' = IF useCache THEN LoadCache(cacheFile) ELSE EmptyCache
    /\ pc' = "next"
    /\ UNCHANGED <<diskVars, ctxPlugins, caller, useCache, pluginFiles, idx,
                   plugins, cur, cycles, raisedAt, obs, start, scriptVars,
                   resolverVars, sideVars>>

\* cache_entry is truthy: a row is there (a non-empty mapping or string)
RowTruthy(row) == row.shape # "absent"

\* lines 178-181: the loop head, the mtime and the cache lookup
NextUnit ==
    /\ pc = "next"
    /\ IF idx > Len(pluginFiles)
       THEN /\ pc' = "finish"
            /\ cur' = NoCur
            /\ UNCHANGED <<raisedAt>>
       ELSE LET u == Path
                mtime == files[u].mtime
                row == cache.rows[u]
                c == [NoCur EXCEPT !.unit = u, !.mtime = mtime, !.entry = row,
                         !.before = [plugins |-> plugins, cache |-> cache,
                                     obs |-> obs]]
            IN  IF cache.kind = "nonmap"
                THEN \* cache.get on a list: AttributeError, outside any try
                     /\ Escape("cache_get")
                     /\ cur' = c
                ELSE IF useCache /\ RowTruthy(row) /\ row.shape = "scalar"
                THEN \* cache_entry.get on a string: AttributeError
                     /\ Escape("entry_get")
                     /\ cur' = c
                ELSE IF useCache /\ RowTruthy(row) /\ row.mtime = mtime
                THEN /\ pc' = "hit_import"
                     /\ cur' = [c EXCEPT !.branch = "hit"]
                     /\ UNCHANGED raisedAt
                ELSE /\ pc' = "miss_import"
                     /\ cur' = [c EXCEPT !.branch = "miss"]
                     /\ UNCHANGED raisedAt
    /\ UNCHANGED <<diskVars, ctxPlugins, cycleVars, idx, plugins, cycles, obs,
                   scriptVars, resolverVars, sideVars>>

\* load_plugin_module(path): the module, or None when the import raises
\* (the exception is logged there)
ImportOutcomes == {"ok", "fail"}

\* lines 183-185: cache hit, the module is imported
HitImport ==
    /\ pc = "hit_import"
    /\ \E r \in ImportOutcomes :
        /\ cur' = Stage(cur, "import")
        /\ IF r = "fail"
           THEN /\ obs' = Rejected(Path)
                /\ Continue
           ELSE /\ pc' = "hit_register"
                /\ UNCHANGED <<idx, obs>>
    /\ UNCHANGED <<diskVars, ctxPlugins, cycleVars, plugins, cycles, raisedAt,
                   scriptVars, resolverVars, sideVars>>

\* line 186: plugin_obj = await maybe_await(mod.register_plugin(context)),
\* outside any try
HitRegister ==
    /\ pc = "hit_register"
    /\ IF ~HasRegisterPlugin(files[Path])
       THEN \* AttributeError: the module has no register_plugin
            /\ Escape("register")
            /\ UNCHANGED cur
       ELSE \/ \* register_plugin raises
               /\ Escape("register")
               /\ cur' = Stage(cur, "register")
            \/ \E obj \in PluginObjects :
               /\ cur' = [Stage(cur, "register") EXCEPT !.obj = obj]
               /\ pc' = "hit_resolve"
               /\ UNCHANGED raisedAt
    /\ UNCHANGED <<diskVars, ctxPlugins, cycleVars, idx, plugins, cycles, obs,
                   scriptVars, resolverVars, sideVars>>

\* mutant: on a cache hit the UI of the previous registry is kept
HitDescriptorStaleUi(u, row, obj, ui) ==
    [title |-> row.title, description |-> row.description,
     version |-> row.version, mtime |-> row.mtime, path |-> u,
     ui |-> IF \E k \in 1..Len(ctxPlugins) : ctxPlugins[k].path = u
            THEN (CHOOSE d \in {ctxPlugins[k] : k \in 1..Len(ctxPlugins)} : d.path = u).ui
            ELSE ui,
     plugin_obj |-> obj]

\* the descriptor of lines 189-194: {**cache_entry, plugin_obj, ui, path}
HitDescriptor(u, row, obj, ui) ==
    [title |-> row.title, description |-> row.description,
     version |-> row.version, mtime |-> row.mtime,
     path |-> u, ui |-> ui, plugin_obj |-> obj]

\* lines 187-195: the UI is resolved and the descriptor stored under the
\* cached title, outside any try
HitResolve ==
    /\ pc = "hit_resolve"
    /\ LET u == Path
           obj == cur.obj
           res == ResolvePluginUi(GetUi(obj))
           d == HitDescriptor(u, cur.entry, obj, res.val)
       IN  IF ~IsMapping(obj)
           THEN \* plugin_obj.get on a non-mapping: AttributeError
                /\ Escape("obj_get")
                /\ UNCHANGED <<obs, plugins, idx, cur>>
           ELSE /\ cur' = Stage(cur, "resolve")
                /\ IF ~res.ok
                   THEN /\ Escape("resolve")
                        /\ UNCHANGED <<obs, plugins, idx>>
                   ELSE IF cur.entry.shape = "notitle"
                   THEN \* cache_entry["title"]: KeyError
                        /\ Escape("entry_title")
                        /\ UNCHANGED <<obs, plugins, idx>>
                   ELSE /\ plugins' = DictSet(plugins, d)
                        /\ obs' = Ready(u, d)
                        /\ Continue
                        /\ UNCHANGED raisedAt
    /\ UNCHANGED <<diskVars, ctxPlugins, cycleVars, cycles, scriptVars, resolverVars, sideVars>>

\* line 200: title = extract_metadata(lines, "title") or basename(path)
DerivedTitle(u) ==
    IF ExtractMetadata(files[u], "title") # ""
    THEN ExtractMetadata(files[u], "title")
    ELSE PathName[u]

\* lines 197-203: cache miss; the title is derived from the source text
\* and the module imported
MissImport ==
    /\ pc = "miss_import"
    /\ \E r \in ImportOutcomes :
        /\ cur' = [Stage(cur, "import") EXCEPT !.title = DerivedTitle(Path),
                                                !.derived = @ + 1]
        /\ IF r = "fail"
           THEN /\ obs' = Rejected(Path)
                /\ Continue
           ELSE /\ pc' = "init_register"
                /\ UNCHANGED <<idx, obs>>
    /\ UNCHANGED <<diskVars, ctxPlugins, cycleVars, plugins, cycles, raisedAt,
                   scriptVars, resolverVars, sideVars>>

\* lines 126-140 and 164-166: initialize_plugin up to register_plugin
InitRegister ==
    /\ pc = "init_register"
    /\ IF ~HasRegisterPlugin(files[Path])
       THEN \* warning, return None
            /\ obs' = Rejected(Path)
            /\ Continue
            /\ UNCHANGED cur
       ELSE \/ \* register_plugin raises: caught at line 164, None
               /\ obs' = Rejected(Path)
               /\ Continue
               /\ cur' = Stage(cur, "register")
            \/ \E obj \in PluginObjects :
               /\ cur' = [Stage(cur, "register") EXCEPT !.obj = obj]
               /\ pc' = "init_hooks"
               /\ UNCHANGED <<idx, obs>>
    /\ UNCHANGED <<diskVars, ctxPlugins, cycleVars, plugins, cycles, raisedAt,
                   scriptVars, resolverVars, sideVars>>

\* what register_hooks(context) does when the module defines it
HookOutcomes(f) == IF HasRegisterHooks(f) THEN {"ok", "raise"} ELSE {""}

\* mutant: an exception of register_hooks is swallowed and the unit kept
HooksRejectIgnoreRaise(h, obj) == ~ValidPluginObj(obj)

\* lines 142-148 and 164-166: the unit is given up when register_hooks
\* raises or the value register_plugin returned is not valid
HooksReject(h, obj) == h = "raise" \/ ~ValidPluginObj(obj)

\* lines 142-148: register_hooks when defined, then the check of the
\* value register_plugin returned
InitHooks ==
    /\ pc = "init_hooks"
    /\ \E h \in HookOutcomes(files[Path]) :
        /\ cur' = [(IF h = "" THEN cur ELSE Stage(cur, "hooks")) EXCEPT !.hookOut = h]
        /\ IF HooksReject(h, cur.obj)
           THEN /\ obs' = Rejected(Path)
                /\ Continue
           ELSE /\ pc' = "init_resolve"
                /\ UNCHANGED <<idx, obs>>
    /\ UNCHANGED <<diskVars, ctxPlugins, cycleVars, plugins, cycles, raisedAt,
                   scriptVars, resolverVars, sideVars>>

\* the descriptor of lines 155-162
MissDescriptor(u, title, obj, ui) ==
    [title |-> title,
     description |-> ExtractMetadata(files[u], "description"),
     version |-> ModuleVersion(files[u]), mtime |-> 0,
     path |-> u, ui |-> ui, plugin_obj |-> obj]

\* mutant: the row keeps the mtime of the first load
CacheRowFirstMtime(d, mtime) ==
    [shape |-> "ok", title |-> d.title, description |-> d.description,
     mtime |-> 1, version |-> d.version]

\* the cache row of lines 207-212
CacheRow(d, mtime) ==
    [shape |-> "ok", title |-> d.title, description |-> d.description,
     mtime |-> mtime, version |-> d.version]

\* mutant: every new cache row is written through to the cache file
InitResolveWriteThrough ==
    /\ pc = "init_resolve"
    /\ LET u == Path
           res == ResolvePluginUi(cur.obj.ui)
           d == MissDescriptor(u, cur.title, cur.obj, res.val)
       IN  IF ~res.ok
           THEN /\ obs' = Rejected(u)
                /\ cur' = Stage(cur, "resolve")
                /\ UNCHANGED <<plugins, cache, cacheFile>>
           ELSE /\ plugins' = DictSet(plugins, d)
                /\ cache' = [cache EXCEPT !.rows[u] = CacheRow(d, cur.mtime)]
                /\ cacheFile' = JsonFile(cache')
                /\ obs' = Ready(u, d)
                /\ cur' = [Stage(cur, "resolve") EXCEPT !.derived = @ + 1]
    /\ Continue
    /\ UNCHANGED <<files, ctxPlugins, caller, useCache, pluginFiles, start,
                   cycles, raisedAt, scriptVars, resolverVars, sideVars>>

\* lines 150-166 and 205-212: the UI is resolved, the descriptor built
\* and stored, the cache row written
InitResolve ==
    /\ pc = "init_resolve"
    /\ LET u == Path
           res == ResolvePluginUi(cur.obj.ui)
           d == MissDescriptor(u, cur.title, cur.obj, res.val)
       IN  IF ~res.ok
           THEN /\ obs' = Rejected(u)
                /\ cur' = Stage(cur, "resolve")
                /\ UNCHANGED <<plugins, cache>>
           ELSE /\ plugins' = DictSet(plugins, d)
                /\ cache' = [cache EXCEPT !.rows[u] = CacheRow(d, cur.mtime)]
                /\ obs' = Ready(u, d)
                /\ cur' = [Stage(cur, "resolve") EXCEPT !.derived = @ + 1]
    /\ Continue
    /\ UNCHANGED <<diskVars, ctxPlugins, caller, useCache, pluginFiles, start,
                   cycles, raisedAt, scriptVars, resolverVars, sideVars>>

\* who awaits get_canvas_plugins: create_combined_ui (gradio_ui.py line 16)
\* or get_canvas_plugins_ui (line 246), which goes on to load_scripts
Callers == {"combined", "plugins_ui"}

\* lines 216-220: the cache is saved, the registry attached and returned
\* to the caller
Finish ==
    /\ pc = "finish"
    /\ IF useCache
       THEN cacheFile' \in SaveCacheOutcomes(cacheFile, cache)
       ELSE UNCHANGED cacheFile
    /\ ctxPlugins' = plugins
    /\ \E c \in Callers :
        /\ caller' = c
        /\ pc' = IF c = "plugins_ui" THEN "scripts" ELSE "done"
    /\ UNCHANGED <<files, useCache, pluginFiles, cache, start, idx, plugins, cur,
                   cycles, raisedAt, obs, scriptVars, resolverVars, sideVars>>

(* ----------------------------- load_scripts --------------------------- *)

\* what plugin_obj.run() does: returns, or raises
RunOutcomes == {"success", "error"}

\* lines 226-237, one iteration: run() of the descriptor's plugin_obj
ScriptStep ==
    /\ pc = "scripts"
    /\ IF sidx > Len(ctxPlugins)
       THEN /\ pc' = "done"
            /\ UNCHANGED scriptVars
       ELSE LET d == ctxPlugins[sidx] IN
            IF Truthy(d.plugin_obj) /\ d.plugin_obj.run
            THEN \E out \in RunOutcomes :
                 /\ scripts' = Append(scripts,
                        [title |-> d.title, status |-> out,
                         value |-> IF out = "success" THEN "result" ELSE "message"])
                 /\ runs' = Append(runs, sidx)
                 /\ sidx' = sidx + 1
                 /\ UNCHANGED pc
            ELSE /\ sidx' = sidx + 1
                 /\ UNCHANGED <<pc, scripts, runs>>
    /\ UNCHANGED <<diskVars, ctxPlugins, cycleVars, idx, plugins, cur, cycles,
                   raisedAt, obs, resolverVars, sideVars>>

\* the entry point returns to its caller, or its exception reaches it;
\* its locals are gone
Return ==
    /\ pc \in {"done", "raised"}
    /\ pc' = "idle"
    /\ caller' = ""
    /\ useCache' = TRUE
    /\ pluginFiles' = << >>
    /\ idx' = 1
    /\ cache' = EmptyCache
    /\ plugins' = << >>
    /\ cur' = NoCur
    /\ raisedAt' = ""
    /\ obs' = [u \in Units |-> NoObs]
    /\ start' = NoStart
    /\ scripts' = << >>
    /\ sidx' = 1
    /\ runs' = << >>
    /\ UNCHANGED <<diskVars, ctxPlugins, cycles, resolverVars, sideVars>>

\* the rewrites and deletions of plugin files so far (every file starts
\* at mtime 1 and a rewrite adds one)
Mods == Cardinality({<<u, k>> \in Units \X (1..MaxMods) : k < files[u].mtime})
        + Cardinality({u \in Units : ~files[u].present})

\* between two cycles a plugin file is rewritten: new text, later mtime
Modify ==
    /\ pc = "idle"
    /\ cycles > 0
    /\ Mods < MaxMods
    /\ \E u \in Units, t \in FileTitles :
        /\ files[u].present
        /\ files' = [files EXCEPT ![u] = [@ EXCEPT !.mtime = @ + 1, !.title = t]]
    /\ UNCHANGED <<cacheFile, ctxPlugins, pc, cycleVars, idx, plugins, cur,
                   cycles, raisedAt, obs, scriptVars, resolverVars, sideVars>>

\* between two cycles a plugin file is deleted
Delete ==
    /\ pc = "idle"
    /\ cycles > 0
    /\ Mods < MaxMods
    /\ \E u \in Units :
        /\ files[u].present
        /\ files' = [files EXCEPT ![u].present = FALSE]
    /\ UNCHANGED <<cacheFile, ctxPlugins, pc, cycleVars, idx, plugins, cur,
                   cycles, raisedAt, obs, scriptVars, resolverVars, sideVars>>

Next ==
    \/ StartCycle
    \/ LoadCacheStep
    \/ NextUnit
    \/ HitImport
    \/ HitRegister
    \/ HitResolve
    \/ MissImport
    \/ InitRegister
    \/ InitHooks
    \/ InitResolve
    \/ Finish
    \/ ScriptStep
    \/ Return
    \/ Modify
    \/ Delete

Spec == Init /\ [][Next]_vars

(* ------------------------- the resolver alone -------------------------- *)

\* resolve_plugin_ui applied to a value, then to its own result
ResolveOnce ==
    /\ Len(rres) < MaxResolves
    /\ IF rres = << >> THEN TRUE ELSE rres[Len(rres)].ok
    /\ rres' = Append(rres, ResolvePluginUi(IF rres = << >> THEN rv
                                             ELSE rres[Len(rres)].val))
    /\ UNCHANGED <<loaderVars, rv, sideVars>>

InitResolveOnly ==
    /\ files = [u \in Units |-> [mtime |-> 1, title |-> "", kind |-> "reg",
                                 present |-> TRUE]]
    /\ cacheFile = MissingFile
    /\ ctxPlugins = << >>
    /\ pc = "idle"
    /\ caller = ""
    /\ useCache = TRUE
    /\ pluginFiles = << >>
    /\ idx = 1
    /\ cache = EmptyCache
    /\ plugins = << >>
    /\ cur = NoCur
    /\ cycles = 0
    /\ raisedAt = ""
    /\ obs = [u \in Units |-> NoObs]
    /\ start = NoStart
    /\ scripts = << >>
    /\ sidx = 1
    /\ runs = << >>
    /\ rv \in UIValues
    /\ rres = << >>
    /\ ScanOff
    /\ OverlapOff
    /\ UiOff

NextResolve == ResolveOnce

SpecResolve == InitResolveOnly /\ [][NextResolve]_vars

(* --------------------------- the scan alone --------------------------- *)

\* the entry point of the single caller is not running
CycleAtRest ==
    /\ pc = "idle"
    /\ caller = ""
    /\ useCache = TRUE
    /\ pluginFiles = << >>
    /\ idx = 1
    /\ cache = EmptyCache
    /\ plugins = << >>
    /\ cur = NoCur
    /\ cycles = 0
    /\ raisedAt = ""
    /\ obs = [u \in Units |-> NoObs]
    /\ start = NoStart
    /\ scripts = << >>
    /\ sidx = 1
    /\ runs = << >>

\* no load cycle is running and none has run
LoaderAtRest ==
    /\ files = [u \in Units |-> [mtime |-> 1, title |-> "", kind |-> "reg",
                                 present |-> TRUE]]
    /\ cacheFile = MissingFile
    /\ ctxPlugins = << >>
    /\ CycleAtRest

\* find_plugin_files(root_dir, recursive) is called on some tree
InitScan ==
    /\ LoaderAtRest
    /\ InitResolver
    /\ OverlapOff
    /\ UiOff
    /\ root \in RootStates
    /\ tree \in (IF root = "ok" THEN Trees ELSE {{}})
    /\ recursive \in BOOLEAN
    /\ walk = << >>
    /\ found = << >>
    /\ scanPc = "call"

\* lines 66-67: files = [], os.walk(root_dir) is entered.  os.walk is
\* called without onerror: when scandir(root_dir) raises OSError the
\* generator ends without yielding anything
WalkStart ==
    /\ scanPc = "call"
    /\ found' = << >>
    /\ walk' = IF root = "ok" THEN << << >> >> ELSE << >>
    /\ scanPc' = "walking"
    /\ UNCHANGED <<loaderVars, resolverVars, overlapVars, uiVars, root, tree, recursive>>

\* lines 67-73, one iteration: os.walk yields the next directory (top
\* down), hidden directories are pruned, the accepted files appended;
\* `break` when not recursive
WalkDir ==
    /\ scanPc = "walking"
    /\ walk # << >>
    /\ LET d == Head(walk) IN
       \E fs \in Orders(FilesIn(tree, d)),
          ds \in Orders(PruneHidden(SubDirs(tree, d))) :
           /\ found' = found \o Accepted(fs)
           /\ walk' = IF recursive THEN ds \o Tail(walk) ELSE << >>
    /\ UNCHANGED <<loaderVars, resolverVars, overlapVars, uiVars, root, tree, recursive, scanPc>>

\* line 74: return files
WalkReturn ==
    /\ scanPc = "walking"
    /\ walk = << >>
    /\ scanPc' = "returned"
    /\ UNCHANGED <<loaderVars, resolverVars, overlapVars, uiVars, root, tree, recursive, walk, found>>

NextScan ==
    \/ WalkStart
    \/ WalkDir
    \/ WalkReturn

SpecScan == InitScan /\ [][NextScan]_vars

(* ----------------------- two overlapping cycles ----------------------- *)

\* Two callers await get_canvas_plugins on the same context (the same
\* context.plugins, the same CACHE_FILE).  asyncio runs a coroutine without
\* interruption up to an await that suspends; a unit whose register_plugin
\* is a coroutine that suspends gives the other caller its turn.

\* what register_plugin of the units of this scenario returns
OkObj == [kind |-> "ui", ui |-> <<"V1">>, run |-> TRUE]

\* lines 172-176: the locals of a fresh invocation (use_cache is left at
\* its default, True)
EnterCycle(p) ==
    [NoInv EXCEPT !.pluginFiles = FindPluginFiles,
                  !.cache = LoadCache(cacheFile),
                  !.second = \E q \in Invocations \ {p} : inv[q].pc = "awaiting"]

\* lines 179-214 for the unit at l.idx, from the value register_plugin
\* returned to the stored descriptor (and cache row, on a miss)
AfterRegister(l) ==
    LET u == l.pluginFiles[l.idx]
        row == l.cache.rows[u]
        ui == ResolvePluginUi(GetUi(OkObj)).val
        d == MissDescriptor(u, DerivedTitle(u), OkObj, ui)
    IN  IF RowTruthy(row) /\ row.mtime = files[u].mtime
        THEN [l EXCEPT !.plugins = DictSet(@, HitDescriptor(u, row, OkObj, ui)),
                       !.idx = @ + 1]
        ELSE [l EXCEPT !.plugins = DictSet(@, d),
                       !.cache = [@ EXCEPT !.rows[u] = CacheRow(d, files[u].mtime)],
                       !.idx = @ + 1]

\* the loop of lines 178-214 runs on, unit after unit, to the next
\* register_plugin that suspends or to the end of the loop
RECURSIVE RunToAwait(_)
RunToAwait(l) ==
    IF l.idx > Len(l.pluginFiles) THEN [l EXCEPT !.pc = "finish"]
    ELSE IF asyncUnit[l.pluginFiles[l.idx]] THEN [l EXCEPT !.pc = "awaiting"]
    ELSE RunToAwait(AfterRegister(l))

\* invocation p has run to l: it is suspended there, or (lines 216-220)
\* it saves its cache, attaches its registry to the context and returns
Proceed(p, l) ==
    IF l.pc = "finish"
    THEN /\ cacheFile' \in SaveCacheOutcomes(cacheFile, l.cache)
         /\ ctxPlugins' = l.plugins
         /\ inv' = [inv EXCEPT ![p] = [l EXCEPT !.pc = "done"]]
    ELSE /\ inv' = [inv EXCEPT ![p] = l]
         /\ UNCHANGED <<cacheFile, ctxPlugins>>

\* a caller enters get_canvas_plugins
OverlapStart(p) ==
    /\ inv[p].pc = "idle"
    /\ Proceed(p, RunToAwait(EnterCycle(p)))
    /\ UNCHANGED <<files, pc, cycleVars, idx, cache, plugins, cur, cycles, raisedAt,
                   obs, scriptVars, resolverVars, scanVars, asyncUnit, uiVars>>

\* the register_plugin an invocation awaits completes
OverlapResume(p) ==
    /\ inv[p].pc = "awaiting"
    /\ Proceed(p, RunToAwait(AfterRegister(inv[p])))
    /\ UNCHANGED <<files, pc, cycleVars, idx, cache, plugins, cur, cycles, raisedAt,
                   obs, scriptVars, resolverVars, scanVars, asyncUnit, uiVars>>

\* the caller has its registry; it may call again
OverlapReturn(p) ==
    /\ inv[p].pc = "done"
    /\ inv' = [inv EXCEPT ![p] = NoInv]
    /\ UNCHANGED <<loaderVars, resolverVars, scanVars, asyncUnit, uiVars>>

InitOverlap ==
    /\ files \in [Units -> [mtime : {1}, title : FileTitles, kind : {"reg"},
                            present : {TRUE}]]
    /\ cacheFile = MissingFile
    /\ ctxPlugins = << >>
    /\ CycleAtRest
    /\ InitResolver
    /\ ScanOff
    /\ UiOff
    /\ inv = [p \in Invocations |-> NoInv]
    /\ asyncUnit \in [Units -> BOOLEAN]

NextOverlap ==
    \E p \in Invocations :
        \/ OverlapStart(p)
        \/ OverlapResume(p)
        \/ OverlapReturn(p)

SpecOverlap == InitOverlap /\ [][NextOverlap]_vars

(* ------------------------- building the UI ---------------------------- *)

\* what awaiting get_canvas_plugins gives create_combined_ui: the registry,
\* or the exception that left the load cycle
LoadOutcomes == {"ok", "raised"}

Task(fn) == [fn |-> fn, st |-> "pending"]

\* task k is one asyncio.create_task was given, not yet run
Pending(k, fn) == uiTasks[k] = Task(fn)

\* gradio_ui.py lines 10-73, one run of create_combined_ui with the
\* arguments a (which of them were given): the context and the
\* ProjectManager default, get_canvas_plugins is awaited, a ChatHandler is
\* made unless given, the Blocks are built
Build(a, out) ==
    [ctx |-> IF a.context THEN "given" ELSE "default",
     newPm |-> ~a.pm,
     newHandler |-> out = "ok" /\ ~a.chat_handler,
     load |-> out]

\* a caller awaits create_combined_ui on a running event loop; line 69
\* schedules populate_canvas_ui
CreateCombinedUi ==
    /\ uiLoop = "call"
    /\ \E out \in LoadOutcomes :
        /\ uiBuilds' = Append(uiBuilds, Build(uiArgs, out))
        /\ uiTasks' = IF out = "ok"
                      THEN Append(uiTasks, Task("populate_canvas_ui"))
                      ELSE uiTasks
    /\ uiLoop' = "running"
    /\ UNCHANGED <<loaderVars, resolverVars, scanVars, overlapVars, uiArgs>>

\* gradio_ui.py lines 76-81: the task populate_canvas_ui runs; it awaits
\* async_canvas_ui, which at its tab AssistantEmbedTab schedules
\* populate_assistant_ui (canvas_ui.py lines 58-64)
PopulateCanvasUi ==
    /\ uiLoop = "running"
    /\ Len(uiTasks) < MaxTasks
    /\ \E k \in 1..Len(uiTasks) :
        /\ Pending(k, "populate_canvas_ui")
        /\ uiTasks' = Append([uiTasks EXCEPT ![k].st = "done"],
                             Task("populate_assistant_ui"))
    /\ UNCHANGED <<loaderVars, resolverVars, scanVars, overlapVars, uiArgs,
                   uiBuilds, uiLoop>>

\* canvas_ui.py lines 87-95: the task populate_assistant_ui runs; it
\* awaits create_combined_ui(pm, chat_handler, context)
PopulateAssistantUi ==
    /\ uiLoop = "running"
    /\ Len(uiTasks) < MaxTasks
    /\ \E k \in 1..Len(uiTasks), out \in LoadOutcomes :
        /\ Pending(k, "populate_assistant_ui")
        /\ uiBuilds' = Append(uiBuilds,
               Build([pm |-> TRUE, chat_handler |-> TRUE, context |-> TRUE], out))
        /\ uiTasks' = IF out = "ok"
                      THEN Append([uiTasks EXCEPT ![k].st = "done"],
                                  Task("populate_canvas_ui"))
                      ELSE [uiTasks EXCEPT ![k].st = "failed"]
    /\ UNCHANGED <<loaderVars, resolverVars, scanVars, overlapVars, uiArgs, uiLoop>>

\* the event loop ends (asyncio.run returns once its main coroutine has):
\* the tasks not yet run are cancelled
LoopClose ==
    /\ uiLoop = "running"
    /\ uiLoop' = "closed"
    /\ uiTasks' = [k \in 1..Len(uiTasks) |->
                      IF uiTasks[k].st = "pending"
                      THEN [uiTasks[k] EXCEPT !.st = "cancelled"]
                      ELSE uiTasks[k]]
    /\ UNCHANGED <<loaderVars, resolverVars, scanVars, overlapVars, uiArgs, uiBuilds>>

InitUi ==
    /\ LoaderAtRest
    /\ InitResolver
    /\ ScanOff
    /\ OverlapOff
    /\ uiArgs \in [pm : BOOLEAN, chat_handler : BOOLEAN, context : BOOLEAN]
    /\ uiBuilds = << >>
    /\ uiTasks = << >>
    /\ uiLoop = "call"

NextUi ==
    \/ CreateCombinedUi
    \/ PopulateCanvasUi
    \/ PopulateAssistantUi
    \/ LoopClose

SpecUi == InitUi /\ [][NextUi]_vars

(* ------------------------------ claims -------------------------------- *)

\* the registry entries, as a set
Entries(reg) == {reg[k] : k \in 1..Len(reg)}

\* the running cycle has processed every candidate and returned
Completed == pc \in {"scripts", "done"}

\* the units find_plugin_files returned to the running cycle
Discovered == {pluginFiles[k] : k \in 1..Len(pluginFiles)}

\* the file of unit u defines no register_plugin
LacksRegister(u) == files[u].kind = "noreg"

\* C1: a failure raised by a single unit at a lifecycle stage
\* (register_plugin, UI resolution, on either branch) never leaves
\* get_canvas_plugins.
C1_UnitFailureNeverEscapes ==
    ~(pc = "raised" /\ raisedAt \in {"register", "resolve"})

\* C2: the registry never holds an entry for a unit without
\* register_plugin; when a cycle completes every such unit has been
\* rejected exactly once, and with one valid unit A beside units without
\* register_plugin the registry is exactly A's descriptor, whose ui is the
\* resolution of the ui A declared.
C2_NoEntryWithoutRegister ==
    /\ \A d \in Entries(plugins) \cup Entries(ctxPlugins) : ~LacksRegister(d.path)
    /\ Completed =>
        /\ \A u \in Discovered : LacksRegister(u) =>
              obs[u].status = "rejected" /\ obs[u].rejects = 1
        /\ \A a \in Units :
              ( /\ obs[a].status = "ready"
                /\ \A b \in Discovered \ {a} : LacksRegister(b) )
              => /\ ctxPlugins = <<obs[a].desc>>
                 /\ obs[a].desc.path = a
                 /\ obs[a].desc.ui = ResolvePluginUi(GetUi(obs[a].desc.plugin_obj)).val

\* C2 witness: scenario A has run: a completed cycle with a ready unit
\* whose declared ui was a concrete container, and a rejected unit
\* without register_plugin.
C2_Witness ==
    /\ Completed
    /\ \E a, b \in Units :
        /\ obs[a].status = "ready"
        /\ obs[a].desc.plugin_obj.ui = <<"V1">>
        /\ LacksRegister(b)
        /\ obs[b].rejects = 1
        /\ Len(ctxPlugins) = 1

\* the row the cache file held for unit u when the cycle started
StartRow(u) == LoadCache(start.cacheFile).rows[u]

\* C3: with use_cache true, a unit whose persisted row carries the
\* unit's current mtime is taken through the cache branch; there title,
\* description and version of its descriptor are those of the row, nothing
\* is derived from the source text, register_plugin is invoked once in
\* this cycle, and the descriptor's ui is the resolution of the ui of the
\* value that call returned.
C3_CacheHitReusesMetadata ==
    /\ ( /\ cur.unit # 0
         /\ useCache
         /\ LoadCache(start.cacheFile).kind = "map"
         /\ StartRow(cur.unit).shape = "ok"
         /\ StartRow(cur.unit).mtime = files[cur.unit].mtime )
       => cur.branch = "hit" /\ cur.entry = StartRow(cur.unit)
    /\ ( /\ cur.branch = "hit"
         /\ obs[cur.unit].status = "ready" )
       => LET d == obs[cur.unit].desc IN
          /\ d.title = cur.entry.title
          /\ d.description = cur.entry.description
          /\ d.version = cur.entry.version
          /\ cur.derived = 0
          /\ cur.stages = <<"import", "register", "resolve">>
          /\ d.plugin_obj = cur.obj
          /\ d.ui = ResolvePluginUi(GetUi(cur.obj)).val
          /\ d \in Entries(plugins)

\* C3 witness: in a second cycle a unit registered by the first one is
\* served from the cache and its fresh ui differs from the one the first
\* cycle left in context.plugins.
C3_Witness ==
    /\ cycles = 2
    /\ cur.branch = "hit"
    /\ obs[cur.unit].status = "ready"
    /\ cur.entry.shape = "ok"
    /\ \E old \in Entries(start.ctxPlugins) :
        /\ old.path = cur.unit
        /\ old.ui # obs[cur.unit].desc.ui

\* C4: every descriptor of the registry holds a plugin_obj that is a
\* mapping with the key 'ui', and a value of register_plugin that is not
\* such a mapping never makes an error leave the cycle.
C4_RegistryObjectsValid ==
    /\ \A d \in Entries(plugins) : IsMapping(d.plugin_obj) /\ HasUiKey(d.plugin_obj)
    /\ ~(pc = "raised" /\ raisedAt = "obj_get")

\* C5: when register_hooks of a unit raises, the error stays inside the
\* cycle, the unit is rejected, and the registry, the cache mapping and
\* the state of every other unit are what they were when the unit's turn
\* began; the loop goes on, and at the end of the loop every unit is Ready
\* or Rejected.
C5_HookFailureIsolated ==
    /\ cur.hookOut = "raise" =>
        /\ pc = "next"
        /\ raisedAt = ""
        /\ pluginFiles[idx - 1] = cur.unit
        /\ obs[cur.unit].status = "rejected"
        /\ plugins = cur.before.plugins
        /\ cache = cur.before.cache
        /\ \A v \in Units \ {cur.unit} : obs[v] = cur.before.obs[v]
    /\ pc = "finish" => \A u \in Discovered : obs[u].status \in {"ready", "rejected"}

\* C5 witness: a unit's register_hooks has raised while another unit of
\* the same cycle is Ready.
C5_Witness ==
    /\ cur.hookOut = "raise"
    /\ cur.stages = <<"import", "register", "hooks">>
    /\ \E v \in Units \ {cur.unit} : obs[v].status = "ready"

\* the units that reached Ready so far in this cycle
ReadyUnits == {u \in Units : obs[u].status = "ready"}

\* C6: the registry holds one entry per title, and the entry of a title
\* is the descriptor (path, ui, plugin_obj) of the last unit in scan order
\* that reached Ready under that title, on either branch.
C6_LastDuplicateTitleWins ==
    /\ \A j, k \in 1..Len(plugins) : plugins[j].title = plugins[k].title => j = k
    /\ \A u \in ReadyUnits : \E d \in Entries(plugins) : d.title = obs[u].desc.title
    /\ \A d \in Entries(plugins) :
        /\ d.path \in ReadyUnits
        /\ d = obs[d.path].desc
        /\ \A q \in ReadyUnits : obs[q].desc.title = d.title => q <= d.path
    /\ Completed => ctxPlugins = plugins

\* C6 witness: two units reached Ready under one title, the earlier on
\* the cache-miss branch and the later on the cache-hit branch, or the
\* other way round, and the cycle completed.
C6_Witness ==
    /\ Completed
    /\ \E u, v \in ReadyUnits :
        /\ u < v
        /\ obs[u].desc.title = obs[v].desc.title
        /\ (obs[u].desc.mtime = 0) # (obs[v].desc.mtime = 0)
        /\ obs[u].desc.plugin_obj # obs[v].desc.plugin_obj
        /\ Len(ctxPlugins) = 1

\* the cache file is a mapping whose rows are all well formed
ValidCacheFile(file) ==
    /\ file.kind = "json"
    /\ file.val.kind = "map"
    /\ \A u \in Units : file.val.rows[u].shape \in {"absent", "ok"}

\* C7: when the persisted cache is missing or is not a valid mapping of
\* rows, a cycle with use_cache true raises no error, takes every unit
\* through the cache-miss branch, and once completed has persisted a valid
\* cache mapping.
C7_InvalidCacheActsAsEmpty ==
    (pc # "idle" /\ useCache /\ ~ValidCacheFile(start.cacheFile)) =>
        /\ pc # "raised"
        /\ cur.branch # "hit"
        /\ Completed => ValidCacheFile(cacheFile)

\* the base value a UI candidate wraps, and its wrappers
BaseOf(v) == v[Len(v)]
Depth(v) == Len(v) - 1

\* C8: a chain of N invocables or deferred computations around a
\* concrete artifact V resolves to V in a number of steps proportional to
\* N (N steps; two for an invocable returning a deferred computation).
C8_ResolveIsRecursive ==
    (Len(rres) >= 1 /\ BaseOf(rv) \in Containers) =>
        /\ rres[1].ok
        /\ rres[1].val = <<BaseOf(rv)>>
        /\ rres[1].steps = Depth(rv)

\* C9: a concrete artifact is returned unchanged, without being invoked
\* or awaited, so resolving the result of a resolution that produced a
\* concrete artifact gives that artifact again.
C9_ResolveConcreteUnchanged ==
    /\ (Len(rres) >= 1 /\ IsContainer(rv)) =>
          rres[1] = [ok |-> TRUE, val |-> rv, steps |-> 0]
    /\ (Len(rres) >= 2 /\ IsContainer(rres[1].val)) =>
          rres[2] = [ok |-> TRUE, val |-> rres[1].val, steps |-> 0]

\* C9 witness: a value that needed a step resolved to a concrete
\* artifact, and that artifact has been resolved again.
C9_Witness ==
    /\ Len(rres) = 2
    /\ ~IsContainer(rv)
    /\ IsContainer(rres[1].val)

\* the registry positions whose plugin_obj exposes run
RunPositions(reg) == {k \in 1..Len(reg) : reg[k].plugin_obj.run}

\* C10: load_scripts records exactly one outcome per registry descriptor
\* whose plugin_obj exposes run, in registry order, success with the result
\* or error with the message; a failing run does not stop later ones, and
\* no run is invoked before the cycle has registered every unit.
C10_OneOutcomePerRunnable ==
    /\ runs # << >> => pc \in {"scripts", "done"}
    /\ \A k \in 1..Len(scripts) :
        /\ scripts[k].title = ctxPlugins[runs[k]].title
        /\ \/ scripts[k].status = "success" /\ scripts[k].value = "result"
           \/ scripts[k].status = "error" /\ scripts[k].value = "message"
    /\ \A j, k \in 1..Len(runs) : j < k => runs[j] < runs[k]
    /\ (pc = "done" /\ caller = "plugins_ui") =>
          {runs[k] : k \in 1..Len(runs)} = RunPositions(ctxPlugins)

\* find_plugin_files has ended, by returning or by raising
ScanEnded == scanPc \in {"returned", "raised"}

\* C11: find_plugin_files returns an empty sequence for a readable root
\* without files; when the root cannot be read (it is missing or may not
\* be listed) the call ends with an error, not with an empty result.
C11_UnreadableRootIsReported ==
    ScanEnded =>
        IF root = "ok"
        THEN scanPc = "returned" /\ (tree = {} => found = << >>)
        ELSE scanPc = "raised"

\* the file has a directory above it, below the root, whose name starts
\* with "."
UnderHidden(f) == \E k \in 1..Len(f.dir) : StartsWith(f.dir[k], <<".">>)

\* the files the scan is to return
Expected(t, rec) ==
    {f \in t :
        /\ EndsWith(f.name, <<".", "p", "y">>)
        /\ f.name \notin EXCLUDED_FILES
        /\ ~StartsWith(f.name, <<"_", "_">>)
        /\ ~UnderHidden(f)
        /\ (rec \/ f.dir = << >>)}

\* C12: on every readable tree find_plugin_files returns exactly the
\* files that end in .py, are not in EXCLUDED_FILES, do not start with
\* "__" and have no ancestor directory below the root whose name starts
\* with "."; with recursive false, only such files directly in the root.
C12_ScanReturnsExactlyThePlugins ==
    (scanPc = "returned" /\ root = "ok") =>
        /\ {found[k] : k \in 1..Len(found)} = Expected(tree, recursive)
        /\ Len(found) = Cardinality(Expected(tree, recursive))

\* C12 witness: a recursive scan has returned a file from a directory
\* below the root and left out a file below a hidden directory
C12_Witness ==
    /\ scanPc = "returned"
    /\ recursive
    /\ \E f \in tree : Len(f.dir) = 2 /\ f \in Expected(tree, recursive)
    /\ \E f \in tree : IsPluginFile(f.name) /\ UnderHidden(f)
                         /\ ~StartsWith(f.dir[Len(f.dir)], <<".">>)
    /\ Len(found) = 1

\* C13: after every completed cycle context.plugins is the registry that
\* cycle built: each entry is the descriptor of a unit that reached Ready
\* in this cycle (none is carried over from an earlier cycle), and a unit
\* whose file is no longer on disk has no entry.
C13_RegistryRebuiltEachCycle ==
    Completed =>
        /\ ctxPlugins = plugins
        /\ \A d \in Entries(ctxPlugins) :
            /\ d.path \in Discovered
            /\ files[d.path].present
            /\ obs[d.path].status = "ready"
            /\ obs[d.path].desc = d

\* C13 witness: a unit the previous cycle registered was deleted, and the
\* cycle after the deletion completed with another unit registered.
C13_Witness ==
    /\ Completed
    /\ ctxPlugins # << >>
    /\ \E d \in Entries(start.ctxPlugins) : ~files[d.path].present

\* no lifecycle stage was executed twice for the unit at hand
NoStageTwice ==
    \A i, j \in 1..Len(cur.stages) : cur.stages[i] = cur.stages[j] => i = j

\* C14: a load cycle whose unit-supplied steps all return or raise ends by
\* completing, never by an exception; at completion every discovered unit
\* is Ready or Rejected (none is left in an intermediate stage), and no
\* stage is executed more than once for a unit.
C14_CycleCompletesAllTerminal ==
    /\ pc # "raised"
    /\ Completed => \A u \in Discovered : obs[u].status \in {"ready", "rejected"}
    /\ NoStageTwice

\* the unit at hand has just been registered
JustReady == cur.unit # 0 /\ obs[cur.unit].status = "ready"

\* the stages a Ready unit is to have gone through, in order
FullLifecycle(u) ==
    IF HasRegisterHooks(files[u])
    THEN <<"import", "register", "hooks", "resolve">>
    ELSE <<"import", "register", "resolve">>

\* C15: a unit that reaches Ready has, in this cycle and in this order,
\* been imported, had register_plugin invoked, had register_hooks invoked
\* when its module defines it, and had its ui resolved, on the cache-hit
\* branch as on the cache-miss branch.
C15_ReadyWentThroughAllStages ==
    JustReady => cur.stages = FullLifecycle(cur.unit)

\* C20: register_hooks is invoked only for a unit whose register_plugin
\* returned a mapping containing 'ui'; a unit rejected for an invalid
\* return value never had its hooks invoked.
C20_HooksOnlyAfterValidation ==
    (\E k \in 1..Len(cur.stages) : cur.stages[k] = "hooks") => ValidPluginObj(cur.obj)

\* save_cache of the completed cycle wrote the cache mapping to the file
Persisted == Completed /\ useCache /\ cacheFile = JsonFile(cache)

FirstInProgress(p) == inv[p].pc = "awaiting" /\ ~inv[p].second

\* C17: while the first of two overlapping invocations of
\* get_canvas_plugins is suspended between its start and its cache
\* persist, no step of the second one changes context.plugins or the
\* persisted cache, nor the registry and cache mapping the first one is
\* building.
C17_NoInterleavedMutation ==
    [][\A p \in Invocations :
          (FirstInProgress(p) /\ inv'[p] = inv[p]) =>
              (ctxPlugins' = ctxPlugins /\ cacheFile' = cacheFile)]_vars

\* C19: one construction through create_combined_ui runs
\* get_canvas_plugins exactly once; the tasks it schedules
\* (populate_canvas_ui and, through async_canvas_ui, populate_assistant_ui)
\* start no further load cycle or UI construction, so at most these two
\* tasks are ever scheduled.
C19_OneLoadPerConstruction ==
    uiLoop \in {"running", "closed"} =>
        /\ Len(uiBuilds) = 1
        /\ Len(uiTasks) <= 2

\* get_canvas_plugins is running and has not reached its return, or an
\* exception has left it
BeforeReturn == pc \notin {"idle", "scripts", "done"}

\* C21: when a load cycle ends with an exception leaving
\* get_canvas_plugins, context.plugins and the cache file are what they
\* were when the cycle started; the registry is attached and the cache
\* written only at the end of a cycle whose loop went through every
\* candidate.
C21_FailedCycleChangesNothing ==
    /\ BeforeReturn =>
        /\ ctxPlugins = start.ctxPlugins
        /\ cacheFile = start.cacheFile
    /\ Completed => idx > Len(pluginFiles)

\* C21 witness: a cycle has ended with an exception after it had put a
\* descriptor in its registry and a new row in its cache mapping, with a
\* registry of an earlier cycle attached to the context.
C21_Witness ==
    /\ pc = "raised"
    /\ start.ctxPlugins # << >>
    /\ plugins # << >>
    /\ plugins # start.ctxPlugins
    /\ cache # LoadCache(start.cacheFile)

====
